---- MODULE Spec2Model ----
(***************************************************************************)
(* A state-machine model of src/src/scraper.py: the Reddit scraper that    *)
(* seeds a Supabase table from three subreddits, re-scrapes them every 4   *)
(* hours and refreshes the counters of the stored posts every 6 hours.     *)
(*                                                                         *)
(* Texts are sequences of one-character strings.  Floats are integers in   *)
(* hundredths (upvote_ratio 0.97 is 97, polarity 0.5 is 50).  Time is in   *)
(* seconds.                                                                *)
(***************************************************************************)
EXTENDS Integers, Sequences, FiniteSets, TLC

VARIABLES
    environ,     \* the names of the environment variables that are set and non-empty
    pc,          \* the position of the single thread of control
    fatal,       \* the exception that left the process, or NoError
    store,       \* the rows of table reddit_posts, in insertion order
    live,        \* the upstream counters of each submission
    frame,       \* the caller the running task returns to
    fi,          \* index into SUBREDDITS of the forum being scraped
    limit,       \* the limit argument of the running scrape_subreddit_data
    batch,       \* the posts the listing generator yields in this scan, unless it raises
    pos,         \* how many posts of the batch have been yielded
    post,        \* the loop variable of the scan
    outcomes,    \* what happened to each post of the scan, or row of the pass, so far
    snap,        \* posts.data: the rows read at the start of the refresh pass
    rpos,        \* how many rows of snap have been handled
    jobs,        \* schedule.jobs: the registered jobs, in registration order
    until,       \* for each job, next_run - now
    since,       \* for each job, the time since it was registered or last ran
    pending,     \* the due jobs run_pending still has to run in this poll
    passLog,     \* the scrape_subreddit_data calls of the running pass over SUBREDDITS
    quiet,       \* refresh passes begun since the upstream counters last changed (0, 1, 2 or more)
    lastClean,   \* the last refresh pass updated every row, and no counter has changed since
    faults,      \* unexpected exceptions raised inside tasks so far
    arg,         \* the argument of a function called on its own
    ret,         \* what that call returned
    inst,        \* the scans of two processes that share one store
    carried      \* a record kept beside the process: the ids of the posts that failed
                 \* in an earlier scan and are not stored since

\* the variables outside the single process
sideVars == <<arg, ret, inst, carried>>

vars == <<environ, pc, fatal, store, live, frame, fi, limit, batch,
          pos, post, outcomes, snap, rpos, jobs, until, since, pending,
          passLog, quiet, lastClean, faults, sideVars>>

----------------------------------------------------------------------------
(* Bounds of the model *)

\* the longest listing a forum returns in one scan
MaxBatch == 2
\* how many unexpected exceptions are raised inside tasks
MaxFaults == 1

----------------------------------------------------------------------------
(* Program constants *)

SUBREDDITS == <<"CultoftheFranklin", "thca", "cultofcannabis">>

SeedLimit == 100
JobLimit == 25
ScrapeEveryHours == 4
RefreshEveryHours == 6
PollSleep == 60
BackoffSleep == 300

Hour == 60 * 60

required_vars == <<"SUPABASE_URL", "SUPABASE_SERVICE_ROLE_KEY",
                   "REDDIT_CLIENT_ID", "REDDIT_CLIENT_SECRET">>

Range(s) == {s[i] : i \in 1..Len(s)}

Min(a, b) == IF a < b THEN a ELSE b

----------------------------------------------------------------------------
(* Texts *)

UpperCase == <<"A","B","C","D","E","F","G","H","I","J","K","L","M",
               "N","O","P","Q","R","S","T","U","V","W","X","Y","Z">>
LowerCase == <<"a","b","c","d","e","f","g","h","i","j","k","l","m",
               "n","o","p","q","r","s","t","u","v","w","x","y","z">>
Digits == {"0","1","2","3","4","5","6","7","8","9"}
Whitespace == {" ", "\t", "\n"}

\* str.lower() on one character
LowerChar(c) ==
    IF \E i \in 1..26 : UpperCase[i] = c
    THEN LowerCase[CHOOSE i \in 1..26 : UpperCase[i] = c]
    ELSE c

\* str.lower()
Lower(t) == [i \in 1..Len(t) |-> LowerChar(t[i])]

\* word in text
Contains(t, w) ==
    \E i \in 1..(Len(t) - Len(w) + 1) :
        \A k \in 1..Len(w) : t[i + k - 1] = w[k]

\* f"{a} {b}"
Joined(a, b) == a \o <<" ">> \o b

----------------------------------------------------------------------------
(* Text enrichment: extract_sentiment and extract_vendor_name *)

\* the value Python's None
None == <<"<None>">>

Max(S) == CHOOSE x \in S : \A y \in S : y <= x
Least(S) == CHOOSE x \in S : \A y \in S : x <= y

\* the regex class [A-Za-z0-9\s\-\_\.]
NameChar(c) ==
    \/ c \in Range(UpperCase) \/ c \in Range(LowerCase) \/ c \in Digits
    \/ c \in Whitespace \/ c \in {"-", "_", "."}

\* the regex class [:\s]
VendorSep(c) == c = ":" \/ c \in Whitespace

\* the regex class \s
SpaceSep(c) == c \in Whitespace

\* a literal of the pattern at position i of t, under (?i)
LitAt(t, i, w) ==
    /\ i >= 1
    /\ i + Len(w) - 1 <= Len(t)
    /\ \A k \in 1..Len(w) : LowerChar(t[i + k - 1]) = w[k]

\* membership in one of the three character classes of the patterns
InClass(cls, c) ==
    CASE cls = "name" -> NameChar(c)
      [] cls = "vendor_sep" -> VendorSep(c)
      [] cls = "space" -> SpaceSep(c)

\* the length of the longest run of characters of a class that starts at position i
Run(t, i, cls) ==
    IF i > Len(t) THEN 0
    ELSE CHOOSE n \in 0..(Len(t) - i + 1) :
            /\ \A k \in 0..(n - 1) : InClass(cls, t[i + k])
            /\ (i + n > Len(t) \/ ~InClass(cls, t[i + n]))

NoSpan == <<0, 0>>

\* SEP+([A-Za-z0-9\s\-\_\.]+) matched at position j, both quantifiers greedy with
\* backtracking: the separator keeps as many characters as leave the group one
\* character to start on; the result is <<start, length>> of group 1
Capture(t, j, sep) ==
    LET run == Run(t, j, sep)
        ok == {n \in 1..run : j + n <= Len(t) /\ NameChar(t[j + n])}
    IN  IF ok = {} THEN NoSpan
        ELSE LET s == j + Max(ok) IN <<s, Run(t, s, "name")>>

w_vendor == <<"v","e","n","d","o","r">>
w_from == <<"f","r","o","m">>
w_ordered == <<"o","r","d","e","r","e","d">>

\* (?i)vendor[:\s]+([A-Za-z0-9\s\-\_\.]+) tried at position i
VendorRule(t, i) ==
    IF LitAt(t, i, w_vendor) THEN Capture(t, i + Len(w_vendor), "vendor_sep") ELSE NoSpan

\* a from rule that matches at the start of the text only
FromRule_AtStart(t, i) ==
    IF i = 1 /\ LitAt(t, i, w_from) THEN Capture(t, i + Len(w_from), "space") ELSE NoSpan

\* (?i)from\s+([A-Za-z0-9\s\-\_\.]+) tried at position i
FromRule(t, i) ==
    IF LitAt(t, i, w_from) THEN Capture(t, i + Len(w_from), "space") ELSE NoSpan

\* (?i)ordered\s+from\s+([A-Za-z0-9\s\-\_\.]+) tried at position i
OrderedFromRule(t, i) ==
    IF LitAt(t, i, w_ordered)
    THEN LET j == i + Len(w_ordered)
             r == Run(t, j, "space")
         IN  IF r >= 1 /\ LitAt(t, j + r, w_from)
             THEN Capture(t, j + r + Len(w_from), "space")
             ELSE NoSpan
    ELSE NoSpan

\* patterns[k] tried at position i
PatternAt(k, t, i) ==
    CASE k = 1 -> VendorRule(t, i)
      [] k = 2 -> FromRule(t, i)
      [] k = 3 -> OrderedFromRule(t, i)

\* re.search(patterns[k], text): the match at the leftmost position where the
\* pattern matches
re_search(k, t) ==
    LET hits == {i \in 1..Len(t) : PatternAt(k, t, i) # NoSpan}
    IN  IF hits = {} THEN NoSpan ELSE PatternAt(k, t, Least(hits))

\* match.group(1)
Group1(t, span) == SubSeq(t, span[1], span[1] + span[2] - 1)

\* a strip of the leading whitespace only
Strip_Leading(t) ==
    LET keep == {i \in 1..Len(t) : t[i] \notin Whitespace}
    IN  IF keep = {} THEN <<>> ELSE SubSeq(t, Least(keep), Len(t))

\* str.strip()
Strip(t) ==
    LET keep == {i \in 1..Len(t) : t[i] \notin Whitespace}
    IN  IF keep = {} THEN <<>> ELSE SubSeq(t, Least(keep), Max(keep))

\* for pattern in patterns: the first pattern that matches decides
extract_vendor_name(text) ==
    LET matching == {k \in 1..3 : re_search(k, text) # NoSpan}
    IN  IF matching = {} THEN None
        ELSE Strip(Group1(text, re_search(Least(matching), text)))

w_good == <<"g","o","o","d">>
w_bad == <<"b","a","d">>

\* TextBlob(text).sentiment.polarity, in hundredths: the mean of the polarities of
\* the lexicon words found in the text (this lexicon: good 0.7, bad -0.7)
Polarity(text) ==
    LET g == Contains(Lower(text), w_good)
        b == Contains(Lower(text), w_bad)
    IN  IF g /\ ~b THEN 70 ELSE IF b /\ ~g THEN -70 ELSE 0

\* the polarity computed outside the try: whatever TextBlob yields is handed on
extract_sentiment_Unguarded(text, blobRaises) == Polarity(text)

\* blobRaises: TextBlob raises on this text
extract_sentiment(text, blobRaises) ==
    IF blobRaises THEN 0 ELSE Polarity(text)

----------------------------------------------------------------------------
(* The forum source: the submissions that exist upstream *)

Ids == {"p1", "p2"}

\* post.subreddit.display_name
Forum(id) == SUBREDDITS[1]

\* post.title
Title(id) == IF id = "p1" THEN <<"R","e","v","i","e","w">> ELSE <<"h","i">>

\* post.selftext
Selftext(id) ==
    IF id = "p1" THEN <<"g","o","o","d"," ","f","r","o","m"," ","A","c","m","e">>
    ELSE <<"b","a","d">>

\* post.author: a Redditor, or None for a deleted account
Author(id) ==
    IF id = "p1" THEN [kind |-> "Redditor", name |-> "bob"] ELSE [kind |-> "NoneType"]

\* post.permalink
Permalink(id) == IF id = "p1" THEN "/r/CultoftheFranklin/comments/p1/" 
                 ELSE "/r/CultoftheFranklin/comments/p2/"

\* post.created_utc, epoch seconds
CreatedEpoch(id) == IF id = "p1" THEN 1700000000 ELSE 1700003600

\* post.score, post.num_comments and post.upvote_ratio of every submission: the
\* two states of the forum source the model moves between
Upstream ==
    {[id \in Ids |->
        IF id = "p1" THEN [score |-> 1, num_comments |-> 0, upvote_ratio |-> 100]
        ELSE [score |-> 2, num_comments |-> 1, upvote_ratio |-> 90]],
     [id \in Ids |->
        IF id = "p1" THEN [score |-> 5, num_comments |-> 3, upvote_ratio |-> 80]
        ELSE [score |-> 7, num_comments |-> 4, upvote_ratio |-> 60]]}

\* TextBlob raises on the text of this submission
BlobRaises(id) == id = "p2"

\* a post as a listing yields it: its id and the counters at the time of the fetch
RawPost(id, c) ==
    [id |-> id, score |-> c.score, num_comments |-> c.num_comments,
     upvote_ratio |-> c.upvote_ratio]

\* the submissions of a forum
ForumPosts(name) == {id \in Ids : Forum(id) = name}

\* the sequences over S of length n
SeqsOfLen(S, n) == [1..n -> S]

\* the listings subreddit.new(limit) can yield, given the counters
Listings(name, lim, counters) ==
    UNION {SeqsOfLen({RawPost(id, counters[id]) : id \in ForumPosts(name)}, n) :
           n \in 0..Min(lim, MaxBatch)}

----------------------------------------------------------------------------
(* The post normalizer *)

\* the author handed on as it is, a null for a deleted account
PyStr_Passthrough(a) == IF a.kind = "NoneType" THEN "<null>" ELSE a.name

\* str(post.author)
PyStr(a) == IF a.kind = "NoneType" THEN "None" ELSE a.name

\* datetime.fromtimestamp(ts, tz=timezone.utc)
FromTimestampUTC(ts) == [epoch |-> ts, tzinfo |-> "UTC"]

\* "review" if any(word in post.title.lower() for word in ["review", "experience"])
\* else "discussion"
w_review == <<"r","e","v","i","e","w">>
w_experience == <<"e","x","p","e","r","i","e","n","c","e">>

\* a test of the title as it is written
PostType_CaseSensitive(title) ==
    IF \E word \in {w_review, w_experience} : Contains(title, word)
    THEN "review" ELSE "discussion"

PostType(title) ==
    IF \E word \in {w_review, w_experience} : Contains(Lower(title), word)
    THEN "review" ELSE "discussion"

\* the attributes of a submission that do not change upstream
Submission(id) ==
    [subreddit |-> Forum(id), title |-> Title(id), selftext |-> Selftext(id),
     author |-> Author(id), permalink |-> Permalink(id),
     created_utc |-> CreatedEpoch(id), blobRaises |-> BlobRaises(id)]

\* the dict process_post returns when every field read succeeds: p holds the id
\* and the counters of the post, s its other attributes
post_dict(p, s) ==
    [reddit_id |-> p.id,
     subreddit |-> s.subreddit,
     title |-> s.title,
     content |-> s.selftext,
     author |-> PyStr(s.author),
     url |-> <<"https://reddit.com", s.permalink>>,
     created_utc |-> FromTimestampUTC(s.created_utc),
     score |-> p.score,
     upvote_ratio |-> p.upvote_ratio,
     num_comments |-> p.num_comments,
     post_type |-> PostType(s.title),
     sentiment_score |-> extract_sentiment(Joined(s.title, s.selftext), s.blobRaises),
     extracted_vendor_name |-> extract_vendor_name(Joined(s.title, s.selftext)),
     processed |-> FALSE]

\* process_post on a post of the forum source
process_post(p) == post_dict(p, Submission(p.id))

----------------------------------------------------------------------------
(* The store: table reddit_posts *)

\* select("id").eq("reddit_id", id): the rows with this reddit_id
SelectById(rows, id) == SelectSeq(rows, LAMBDA r : r.reddit_id = id)

\* an insert that replaces the table by the new row
InsertRow_Replace(rows, row) == <<row>>

\* insert(post_data)
InsertRow(rows, row) == Append(rows, row)

\* an update that also writes a derived field
UpdateCounters_Sentiment(rows, id, c) ==
    [i \in 1..Len(rows) |->
        IF rows[i].reddit_id = id
        THEN [rows[i] EXCEPT !.score = c.score,
                             !.num_comments = c.num_comments,
                             !.upvote_ratio = c.upvote_ratio,
                             !.sentiment_score = 0]
        ELSE rows[i]]

\* an update that adds the live score to the stored one
UpdateCounters_Add(rows, id, c) ==
    [i \in 1..Len(rows) |->
        IF rows[i].reddit_id = id
        THEN [rows[i] EXCEPT !.score = rows[i].score + c.score,
                             !.num_comments = c.num_comments,
                             !.upvote_ratio = c.upvote_ratio]
        ELSE rows[i]]

\* update({...}).eq("reddit_id", id): the three counters of every row with this id
UpdateCounters(rows, id, c) ==
    [i \in 1..Len(rows) |->
        IF rows[i].reddit_id = id
        THEN [rows[i] EXCEPT !.score = c.score,
                             !.num_comments = c.num_comments,
                             !.upvote_ratio = c.upvote_ratio]
        ELSE rows[i]]

StoredIds(rows) == {rows[i].reddit_id : i \in 1..Len(rows)}

----------------------------------------------------------------------------
(* Start of the process *)

NoError == [raisedBy |-> "nobody", names |-> {}]
NoPost == [id |-> "none"]
JobNames == {"scrape", "refresh"}

\* the two periods taken for one another
Period_Swapped(job) ==
    IF job = "scrape" THEN RefreshEveryHours * Hour ELSE ScrapeEveryHours * Hour

\* the job periods schedule.every(n).hours gives
Period(job) == IF job = "scrape" THEN ScrapeEveryHours * Hour ELSE RefreshEveryHours * Hour

scanVars == <<limit, batch, pos, post>>
refreshVars == <<snap, rpos>>
schedVars == <<jobs, until, since, pending>>
histVars == <<quiet, lastClean>>

\* no function has been called on its own
NoCall == [fn |-> "none"]

\* no second process
NoInst == <<>>

\* the process as the interpreter starts it
Booting ==
    /\ environ \in SUBSET Range(required_vars)
    /\ pc = "import_supabase"
    /\ fatal = NoError
    /\ store = <<>>
    /\ live \in Upstream
    /\ frame = "none"
    /\ fi = 0
    /\ limit = 0
    /\ batch = <<>>
    /\ pos = 0
    /\ post = NoPost
    /\ outcomes = <<>>
    /\ snap = <<>>
    /\ rpos = 0
    /\ jobs = <<>>
    /\ until = [j \in JobNames |-> 0]
    /\ since = [j \in JobNames |-> 0]
    /\ pending = <<>>
    /\ passLog = <<>>
    /\ quiet = 0
    /\ lastClean = FALSE
    /\ faults = 0

Init ==
    /\ Booting
    /\ arg = NoCall
    /\ ret = NoCall
    /\ inst = NoInst
    /\ carried = {}

\* a client constructor given these settings: it returns, or, when some of them are
\* missing, the library may raise an error of its own that names some of those
ClientConstructor(who, settings, next) ==
    LET missing == settings \ environ
    IN  \/ /\ pc' = next
           /\ fatal' = fatal
        \/ /\ missing # {}
           /\ \E named \in (SUBSET missing) \ {{}} :
                fatal' = [raisedBy |-> who, names |-> named]
           /\ pc' = "exited"

\* supabase = create_client(os.getenv("SUPABASE_URL"), os.getenv("SUPABASE_SERVICE_ROLE_KEY"))
ImportSupabase ==
    /\ pc = "import_supabase"
    /\ ClientConstructor("create_client",
                         {"SUPABASE_URL", "SUPABASE_SERVICE_ROLE_KEY"}, "import_reddit")
    /\ UNCHANGED <<sideVars, environ, store, live, frame, fi, scanVars, outcomes, refreshVars,
                   schedVars, passLog, histVars, faults>>

\* reddit = praw.Reddit(client_id=os.getenv(...), client_secret=os.getenv(...), ...)
ImportReddit ==
    /\ pc = "import_reddit"
    /\ ClientConstructor("praw.Reddit",
                         {"REDDIT_CLIENT_ID", "REDDIT_CLIENT_SECRET"}, "check_environment")
    /\ UNCHANGED <<sideVars, environ, store, live, frame, fi, scanVars, outcomes, refreshVars,
                   schedVars, passLog, histVars, faults>>

\* missing_vars = [var for var in required_vars if not os.getenv(var)]
missing_vars == {v \in Range(required_vars) : v \notin environ}

\* check_environment() under the __main__ guard: the EnvironmentError is logged
\* as critical and raised again; otherwise main() starts
check_environment ==
    /\ pc = "check_environment"
    /\ IF missing_vars # {}
       THEN /\ fatal' = [raisedBy |-> "check_environment", names |-> missing_vars]
            /\ pc' = "exited"
            /\ fi' = fi
       ELSE /\ fatal' = fatal
            /\ pc' = "seed"
            /\ fi' = 1
    /\ UNCHANGED <<sideVars, environ, store, live, frame, scanVars, outcomes, refreshVars,
                   schedVars, passLog, histVars, faults>>

\* one call of scrape_subreddit_data, as the pass records it
Call(name, lim) == [forum |-> name, limit |-> lim, failed |-> FALSE]

\* a seed loop that stops before the last forum
SeedCall_SkipLast ==
    /\ pc = "seed"
    /\ IF fi < Len(SUBREDDITS)
       THEN /\ frame' = "seed"
            /\ limit' = SeedLimit
            /\ passLog' = Append(passLog, Call(SUBREDDITS[fi], SeedLimit))
            /\ pc' = "s_open"
       ELSE /\ frame' = "none"
            /\ limit' = 0
            /\ passLog' = passLog
            /\ pc' = "register"
    /\ UNCHANGED <<sideVars, environ, fatal, store, live, fi, batch, pos, post,
                   outcomes, refreshVars, schedVars, histVars, faults>>

\* main: for subreddit in SUBREDDITS: scrape_subreddit_data(subreddit, limit=100)
SeedCall ==
    /\ pc = "seed"
    /\ IF fi <= Len(SUBREDDITS)
       THEN /\ frame' = "seed"
            /\ limit' = SeedLimit
            /\ passLog' = Append(passLog, Call(SUBREDDITS[fi], SeedLimit))
            /\ pc' = "s_open"
       ELSE /\ frame' = "none"
            /\ limit' = 0
            /\ passLog' = passLog
            /\ pc' = "register"
    /\ UNCHANGED <<sideVars, environ, fatal, store, live, fi, batch, pos, post,
                   outcomes, refreshVars, schedVars, histVars, faults>>

\* schedule.every(4).hours.do(...); schedule.every(6).hours.do(update_existing_posts)
Register ==
    /\ pc = "register"
    /\ jobs' = <<"scrape", "refresh">>
    /\ until' = [j \in JobNames |-> Period(j)]
    /\ since' = [j \in JobNames |-> 0]
    /\ passLog' = <<>>
    /\ pc' = "poll"
    /\ UNCHANGED <<sideVars, environ, fatal, store, live, frame, fi, scanVars, outcomes,
                   refreshVars, pending, histVars, faults>>

----------------------------------------------------------------------------
(* scrape_subreddit_data *)

\* subreddit = reddit.subreddit(subreddit_name); subreddit.new(limit=limit):
\* the forum cannot be opened, or the listing the generator is about to yield
\* is chosen
ScrapeOpen ==
    /\ pc = "s_open"
    /\ \/ /\ pc' = "s_except"
          /\ batch' = batch
       \/ /\ batch' \in Listings(SUBREDDITS[fi], limit, live)
          /\ pc' = "s_iter"
    /\ UNCHANGED <<sideVars, environ, fatal, store, live, frame, fi, limit, pos, post, outcomes,
                   refreshVars, schedVars, passLog, histVars, faults>>

\* for post in subreddit.new(limit=limit): the fetch behind the generator
\* raises, or the generator is exhausted or yields the next post
ScrapeNext ==
    /\ pc = "s_iter"
    /\ \/ /\ pc' = "s_except"
          /\ UNCHANGED <<pos, post>>
       \/ /\ pos = Len(batch)
          /\ pc' = "s_return"
          /\ UNCHANGED <<pos, post>>
       \/ /\ pos < Len(batch)
          /\ post' = batch[pos + 1]
          /\ pos' = pos + 1
          /\ pc' = "s_check"
    /\ UNCHANGED <<sideVars, environ, fatal, store, live, frame, fi, limit, batch,
                   outcomes, refreshVars, schedVars, passLog, histVars, faults>>

\* an outer handler that raises the exception again after logging it
ScrapeExcept_Reraise ==
    /\ pc = "s_except"
    /\ pc' = "exited"
    /\ fatal' = [raisedBy |-> "scrape_subreddit_data", names |-> {}]
    /\ UNCHANGED <<sideVars, environ, store, live, frame, fi, scanVars, outcomes,
                   refreshVars, schedVars, passLog, histVars, faults>>

\* except Exception as e: logger.error(f"Error scraping subreddit ...")
ScrapeExcept ==
    /\ pc = "s_except"
    /\ passLog' = [passLog EXCEPT ![Len(passLog)].failed = TRUE]
    /\ pc' = "s_return"
    /\ UNCHANGED <<sideVars, environ, fatal, store, live, frame, fi, scanVars, outcomes,
                   refreshVars, schedVars, histVars, faults>>

\* the ids of the posts of a scan whose check, normalization or insert failed
FailedIn(posts, results) ==
    {posts[k].id : k \in {x \in 1..Len(results) :
        results[x] \in {"check_failed", "normalize_failed", "insert_failed"}}}

\* the function returns None to its caller: the seed loop or the scheduled lambda
ScrapeReturn ==
    /\ pc = "s_return"
    /\ pc' = IF frame = "seed" THEN "seed" ELSE "scrape_job"
    /\ fi' = fi + 1
    /\ limit' = 0
    /\ batch' = <<>>
    /\ pos' = 0
    /\ post' = NoPost
    /\ outcomes' = <<>>
    /\ UNCHANGED <<sideVars, environ, fatal, store, live, frame, refreshVars, schedVars,
                   passLog, histVars, faults>>

\* the same return, with the record of the failed posts kept
ScrapeReturnNoted ==
    /\ pc = "s_return"
    /\ pc' = IF frame = "seed" THEN "seed" ELSE "scrape_job"
    /\ fi' = fi + 1
    /\ limit' = 0
    /\ batch' = <<>>
    /\ pos' = 0
    /\ post' = NoPost
    /\ outcomes' = <<>>
    /\ carried' = (carried \cup FailedIn(batch, outcomes)) \ StoredIds(store)
    /\ UNCHANGED <<arg, ret, inst, environ, fatal, store, live, frame, refreshVars,
                   schedVars, passLog, histVars, faults>>

\* the existence check left out: every fetched post counts as new
NotExisting_Always(data) == TRUE

\* if not existing.data
NotExisting(data) == Len(data) = 0

\* an inner handler that lets the exception reach the outer one
AfterPostError_Propagate == "s_except"

\* an inner handler that tries the same post again
AfterPostError_Retry == "s_check"

\* where the inner handler of the scan goes on: continue
AfterPostError == "s_iter"

\* existing = supabase.table("reddit_posts").select("id").eq("reddit_id", post.id).execute()
\* raises (caught by the inner handler), or tells whether a row exists
ScrapeCheck ==
    /\ pc = "s_check"
    /\ \/ /\ outcomes' = Append(outcomes, "check_failed")
          /\ pc' = AfterPostError
       \/ /\ NotExisting(SelectById(store, post.id))
          /\ outcomes' = outcomes
          /\ pc' = "s_insert"
       \/ /\ ~NotExisting(SelectById(store, post.id))
          /\ outcomes' = Append(outcomes, "exists")
          /\ pc' = "s_iter"
    /\ UNCHANGED <<sideVars, environ, fatal, store, live, frame, fi, scanVars, refreshVars,
                   schedVars, passLog, histVars, faults>>

\* post_data = process_post(post); if post_data: insert(post_data).execute()
\* a field read raises inside process_post, which returns None; the insert raises
\* (caught by the inner handler); or the row is inserted
ScrapeInsert ==
    /\ pc = "s_insert"
    /\ \/ /\ outcomes' = Append(outcomes, "normalize_failed")
          /\ store' = store
          /\ pc' = "s_iter"
       \/ /\ outcomes' = Append(outcomes, "insert_failed")
          /\ store' = store
          /\ pc' = AfterPostError
       \/ /\ store' = InsertRow(store, process_post(post))
          /\ outcomes' = Append(outcomes, "inserted")
          /\ pc' = "s_iter"
    /\ UNCHANGED <<sideVars, environ, fatal, live, frame, fi, scanVars, refreshVars,
                   schedVars, passLog, histVars, faults>>

----------------------------------------------------------------------------
(* update_existing_posts *)

\* posts = supabase.table("reddit_posts").select("*").execute(): raises (caught by
\* the outer handler), or returns the rows
RefreshSelect ==
    /\ pc = "r_select"
    /\ \/ /\ pc' = "r_except"
          /\ snap' = snap
       \/ /\ snap' = store
          /\ pc' = "r_each"
    /\ rpos' = 0
    /\ outcomes' = <<>>
    /\ quiet' = Min(quiet + 1, 2)
    /\ UNCHANGED <<sideVars, environ, fatal, store, live, frame, fi, scanVars, schedVars,
                   passLog, lastClean, faults>>

\* an outer handler that raises the exception again: it leaves the job and
\* run_pending() and reaches the handler of the loop
RefreshExcept_Reraise ==
    /\ pc = "r_except"
    /\ lastClean' = FALSE
    /\ pc' = "except_loop"
    /\ UNCHANGED <<sideVars, environ, fatal, store, live, frame, fi, scanVars, outcomes,
                   refreshVars, schedVars, passLog, quiet, faults>>

\* except Exception as e: logger.error(f"Error in update_existing_posts: {e}")
RefreshExcept ==
    /\ pc = "r_except"
    /\ lastClean' = FALSE
    /\ pc' = "job_done"
    /\ UNCHANGED <<sideVars, environ, fatal, store, live, frame, fi, scanVars, outcomes,
                   refreshVars, schedVars, passLog, quiet, faults>>

\* supabase.table("reddit_posts").update({"score": post.score, "num_comments":
\* post.num_comments, "upvote_ratio": post.upvote_ratio}).eq("reddit_id", post.id)
RefreshRow(rows, id, counters) == UpdateCounters(rows, id, counters[id])

\* an inner handler that lets the exception reach the outer one
AfterRowError_Propagate == "r_except"

\* where the inner handler of the pass goes on: continue
AfterRowError == "r_each"

\* the loop over posts.data: for the next row the live re-fetch raises, the update
\* raises (both caught by the inner handler), or the three counters of the row
\* are overwritten with the live ones; after the last row the function returns
RefreshEach ==
    /\ pc = "r_each"
    /\ IF rpos = Len(snap)
       THEN /\ pc' = "job_done"
            /\ lastClean' = (\A k \in 1..Len(outcomes) : outcomes[k] = "updated")
            /\ snap' = <<>>
            /\ rpos' = 0
            /\ outcomes' = <<>>
            /\ store' = store
       ELSE /\ rpos' = rpos + 1
            /\ snap' = snap
            /\ lastClean' = lastClean
            /\ \/ /\ outcomes' = Append(outcomes, "fetch_failed")
                  /\ store' = store
                  /\ pc' = AfterRowError
               \/ /\ outcomes' = Append(outcomes, "update_failed")
                  /\ store' = store
                  /\ pc' = AfterRowError
               \/ /\ outcomes' = Append(outcomes, "updated")
                  /\ store' = RefreshRow(store, snap[rpos + 1].reddit_id, live)
                  /\ pc' = "r_each"
    /\ UNCHANGED <<sideVars, environ, fatal, live, frame, fi, scanVars, schedVars, passLog,
                   quiet, faults>>

----------------------------------------------------------------------------
(* The scheduler loop of main *)

\* job.should_run: datetime.now() >= self.next_run
ShouldRun(job) == until[job] <= 0

\* sorted(runnable_jobs): by next_run, jobs registered earlier first among equals
SortedByNextRun(js) ==
    IF Len(js) = 2 /\ until[js[2]] < until[js[1]] THEN <<js[2], js[1]>> ELSE js

\* schedule.run_pending(): the due jobs, in the order they will run
RunPending ==
    /\ pc = "poll"
    /\ pending' = SortedByNextRun(SelectSeq(jobs, ShouldRun))
    /\ pc' = IF pending' = <<>> THEN "sleep" ELSE "run"
    /\ UNCHANGED <<sideVars, environ, fatal, store, live, frame, fi, scanVars, outcomes,
                   refreshVars, jobs, until, since, passLog, histVars, faults>>

\* run_pending runs the next due job, or returns when none is left
RunJob ==
    /\ pc = "run"
    /\ IF pending = <<>>
       THEN /\ pc' = "sleep"
            /\ UNCHANGED <<frame, fi>>
       ELSE IF Head(pending) = "scrape"
       THEN /\ pc' = "scrape_job"
            /\ frame' = "scrape_job"
            /\ fi' = 1
       ELSE /\ pc' = "r_select"
            /\ frame' = "refresh_job"
            /\ fi' = fi
    /\ UNCHANGED <<sideVars, environ, fatal, store, live, scanVars, outcomes, refreshVars,
                   schedVars, passLog, histVars, faults>>

\* lambda: [scrape_subreddit_data(sub, limit=25) for sub in SUBREDDITS]
ScrapeJobCall ==
    /\ pc = "scrape_job"
    /\ IF fi <= Len(SUBREDDITS)
       THEN /\ limit' = JobLimit
            /\ passLog' = Append(passLog, Call(SUBREDDITS[fi], JobLimit))
            /\ pc' = "s_open"
       ELSE /\ limit' = 0
            /\ passLog' = passLog
            /\ pc' = "job_done"
    /\ UNCHANGED <<sideVars, environ, fatal, store, live, frame, fi, batch, pos, post,
                   outcomes, refreshVars, schedVars, histVars, faults>>

\* Job.run after job_func has returned: last_run = now, next_run = now + period
JobDone ==
    /\ pc = "job_done"
    /\ until' = [until EXCEPT ![Head(pending)] = Period(Head(pending))]
    /\ since' = [since EXCEPT ![Head(pending)] = 0]
    /\ pending' = Tail(pending)
    /\ frame' = "none"
    /\ passLog' = <<>>
    /\ pc' = "run"
    /\ UNCHANGED <<sideVars, environ, fatal, store, live, fi, scanVars, outcomes, refreshVars,
                   jobs, histVars, faults>>

\* the clock advances by d seconds
Elapse(d) ==
    /\ until' = [j \in JobNames |-> until[j] - d]
    /\ since' = [j \in JobNames |-> since[j] + d]

\* time.sleep(60)
Sleep ==
    /\ pc = "sleep"
    /\ Elapse(PollSleep)
    /\ pc' = "poll"
    /\ UNCHANGED <<sideVars, environ, fatal, store, live, frame, fi, scanVars, outcomes,
                   refreshVars, jobs, pending, passLog, histVars, faults>>

\* a loop without its try: the exception leaves main() and the process
EscapeTarget_NoTry(fr) == "exited"

\* where an exception that leaves a task is handled: one that leaves a seed scrape
\* leaves main() and the process; one that leaves a scheduled job leaves
\* run_pending() inside the try of the loop
EscapeTarget(fr) == IF fr = "seed" THEN "exited" ELSE "except_loop"

TaskPcs == {"s_open", "s_iter", "s_check", "s_insert", "s_except", "s_return",
            "scrape_job", "r_select", "r_each", "r_except"}

\* an exception that no handler of the task catches is raised inside the task
TaskFault ==
    /\ pc \in TaskPcs
    /\ faults < MaxFaults
    /\ faults' = faults + 1
    /\ pc' = EscapeTarget(frame)
    /\ fatal' = IF EscapeTarget(frame) = "exited"
                THEN [raisedBy |-> "task", names |-> {}] ELSE fatal
    /\ frame' = "none"
    /\ limit' = 0
    /\ batch' = <<>>
    /\ pos' = 0
    /\ post' = NoPost
    /\ outcomes' = <<>>
    /\ snap' = <<>>
    /\ rpos' = 0
    /\ pending' = <<>>
    /\ passLog' = <<>>
    /\ UNCHANGED <<sideVars, environ, store, live, fi, jobs, until, since, histVars>>

\* except Exception as e: logger.error(f"Error in main loop: {e}"); time.sleep(300)
Backoff ==
    /\ pc = "except_loop"
    /\ Elapse(BackoffSleep)
    /\ pc' = "poll"
    /\ UNCHANGED <<sideVars, environ, fatal, store, live, frame, fi, scanVars, outcomes,
                   refreshVars, jobs, pending, passLog, histVars, faults>>

----------------------------------------------------------------------------
(* The forum source changes *)

\* the scores, the comments and the ratios of the submissions change upstream
UpstreamChange ==
    /\ pc \notin {"import_supabase", "import_reddit", "check_environment", "exited"}
    /\ live' \in Upstream \ {live}
    /\ quiet' = 0
    /\ lastClean' = FALSE
    /\ UNCHANGED <<sideVars, environ, pc, fatal, store, frame, fi, scanVars, outcomes,
                   refreshVars, schedVars, passLog, faults>>

----------------------------------------------------------------------------
(* Specifications *)

\* the steps of the process
Proc ==
    \/ ImportSupabase
    \/ ImportReddit
    \/ check_environment
    \/ SeedCall
    \/ Register
    \/ ScrapeOpen
    \/ ScrapeNext
    \/ ScrapeExcept
    \/ ScrapeReturn
    \/ ScrapeCheck
    \/ ScrapeInsert
    \/ RefreshSelect
    \/ RefreshExcept
    \/ RefreshEach
    \/ RunPending
    \/ RunJob
    \/ ScrapeJobCall
    \/ JobDone
    \/ Sleep

Next == Proc \/ UpstreamChange

\* the process and the forum source, every exception being one the tasks handle
Spec == Init /\ [][Next]_vars

NextFault == Proc \/ TaskFault \/ Backoff

\* the process with unexpected exceptions inside tasks, the counters upstream fixed
SpecFault == Init /\ [][NextFault]_vars

NextNoted ==
    \/ ImportSupabase
    \/ ImportReddit
    \/ check_environment
    \/ SeedCall
    \/ Register
    \/ ScrapeOpen
    \/ ScrapeNext
    \/ ScrapeExcept
    \/ ScrapeReturnNoted
    \/ ScrapeCheck
    \/ ScrapeInsert
    \/ RefreshSelect
    \/ RefreshExcept
    \/ RefreshEach
    \/ RunPending
    \/ RunJob
    \/ ScrapeJobCall
    \/ JobDone
    \/ Sleep
    \/ UpstreamChange

\* the process and the forum source, with the record of the failed posts kept
SpecNoted == Init /\ [][NextNoted]_vars

\* the process alone, the counters upstream fixed (the schedule does not read
\* them); it keeps taking steps: every external call returns
SpecLive == Init /\ [][Proc]_vars /\ WF_vars(Proc)

----------------------------------------------------------------------------
(* The enrichment functions called on their own *)

\* the longest text, in words of Words
MaxWords == 3

\* the pieces the texts are made of
Words ==
    {<<"O","r","d","e","r","e","d"," ">>,
     <<"f","r","o","m"," ">>,
     <<"A","c","m","e"," ","C","o","."," ","y","e","s","t","e","r","d","a","y">>,
     <<"v","e","n","d","o","r",":"," ">>,
     <<"V","E","N","D","O","R">>,
     <<"X","-","1"," ">>,
     <<":">>,
     <<"!">>}

RECURSIVE Concat(_)
\* "".join(ws)
Concat(ws) == IF ws = <<>> THEN <<>> ELSE Head(ws) \o Concat(Tail(ws))

\* the texts extract_vendor_name is called with
Texts == {Concat(ws) : ws \in UNION {SeqsOfLen(Words, n) : n \in 0..MaxWords}}

\* the titles and the bodies of the posts process_post is called with
SampleTitles ==
    {<<"G","r","e","a","t"," ","r","e","v","i","e","w"," ","o","f"," ","X","Y","Z">>,
     <<"J","u","s","t"," ","a"," ","d","i","s","c","u","s","s","i","o","n"," ","t","h","r","e","a","d">>,
     <<"M","y"," ","E","X","P","E","R","I","E","N","C","E">>,
     <<"h","i">>}

SampleBodies ==
    {<<>>,
     <<"a"," ","r","e","v","i","e","w">>,
     <<"b","a","d"," ","f","r","o","m"," ","A","c","m","e">>}

\* the posts process_post is called with; a malformed one raises at a field read
SamplePosts ==
    [subreddit : {SUBREDDITS[2]}, title : SampleTitles, selftext : SampleBodies,
     author : {[kind |-> "Redditor", name |-> "bob"], [kind |-> "NoneType"]},
     permalink : {"/r/thca/comments/s1/"}, created_utc : {1700007200},
     blobRaises : BOOLEAN, malformed : BOOLEAN]

\* the calls made
Calls ==
    [fn : {"extract_vendor_name"}, text : Texts]
       \cup [fn : {"process_post"}, post : SamplePosts]

InitCalls ==
    /\ Booting
    /\ environ = Range(required_vars)
    /\ live = CHOOSE u \in Upstream : u["p1"].score = 1
    /\ arg \in Calls
    /\ ret = NoCall
    /\ inst = NoInst
    /\ carried = {}

progVars == <<environ, pc, fatal, store, live, frame, fi, scanVars, outcomes,
              refreshVars, schedVars, passLog, histVars, faults>>

\* extract_vendor_name(text) is called and returns
CallExtractVendorName ==
    /\ arg.fn = "extract_vendor_name"
    /\ ret = NoCall
    /\ ret' = [fn |-> arg.fn, value |-> extract_vendor_name(arg.text)]
    /\ UNCHANGED <<progVars, arg, inst, carried>>

\* process_post(post) is called and returns: None when a field read raised
\* (except Exception: return None), the dict otherwise
CallProcessPost ==
    /\ arg.fn = "process_post"
    /\ ret = NoCall
    /\ ret' = [fn |-> arg.fn,
               type |-> IF arg.post.malformed THEN "NoneType" ELSE "dict",
               value |-> IF arg.post.malformed THEN None
                         ELSE post_dict(RawPost("s1", [score |-> 3, num_comments |-> 1,
                                                       upvote_ratio |-> 95]),
                                        arg.post)]
    /\ UNCHANGED <<progVars, arg, inst, carried>>

NextCalls == CallExtractVendorName \/ CallProcessPost

\* every call of the two functions on the sample arguments
SpecCalls == InitCalls /\ [][NextCalls]_vars

----------------------------------------------------------------------------
(* Two processes scan the same forum against one store *)

\* the longest listing each of the two scans gets
MaxShared == 1

Instances == {1, 2}

\* the listings the two scans can get
SharedListings ==
    UNION {SeqsOfLen({RawPost(id, live[id]) : id \in ForumPosts(SUBREDDITS[1])}, n) :
           n \in 0..MaxShared}

\* for post in subreddit.new(limit=limit): the scan takes the next post of its
\* listing, or ends
Advance(me) ==
    IF me.pos = Len(me.batch)
    THEN [me EXCEPT !.at = "done"]
    ELSE [me EXCEPT !.at = "check", !.pos = me.pos + 1]

InitTwo ==
    /\ Booting
    /\ environ = Range(required_vars)
    /\ live = CHOOSE u \in Upstream : u["p1"].score = 1
    /\ arg = NoCall
    /\ ret = NoCall
    /\ carried = {}
    /\ \E b1 \in SharedListings, b2 \in SharedListings :
          inst = [scan |-> [i \in Instances |->
                              Advance([at |-> "iter", batch |-> IF i = 1 THEN b1 ELSE b2,
                                       pos |-> 0, data |-> <<>>])],
                  log |-> <<>>]

twoFrozen == <<environ, pc, fatal, live, frame, fi, scanVars, outcomes,
               refreshVars, schedVars, passLog, histVars, faults, arg, ret, carried>>

\* what the store has seen of a call: who made it, for which post, whether it
\* returned or raised
Event(i, op, id, ok) == [who |-> i, op |-> op, id |-> id, ok |-> ok]

\* existing = ...select("id").eq("reddit_id", post.id).execute(), in process i:
\* raises (continue), or returns the rows the store holds at this moment
TwoCheck(i) ==
    LET me == inst.scan[i]
        id == me.batch[me.pos].id
        data == SelectById(store, id)
    IN  /\ me.at = "check"
        /\ \/ inst' = [inst EXCEPT !.scan[i] = Advance(me),
                                   !.log = Append(@, Event(i, "check", id, FALSE))]
           \/ inst' = [inst EXCEPT !.scan[i] =
                                       IF NotExisting(data)
                                       THEN [me EXCEPT !.at = "insert", !.data = data]
                                       ELSE Advance([me EXCEPT !.data = data]),
                                   !.log = Append(@, Event(i, "check", id, TRUE))]
        /\ UNCHANGED <<twoFrozen, store>>

\* post_data = process_post(post); if post_data: insert(post_data).execute(), in
\* process i: process_post returns None, or the insert raises (continue), or the
\* row is inserted
TwoInsert(i) ==
    LET me == inst.scan[i]
        p == me.batch[me.pos]
    IN  /\ me.at = "insert"
        /\ \/ /\ inst' = [inst EXCEPT !.scan[i] = Advance(me)]
              /\ store' = store
           \/ /\ inst' = [inst EXCEPT !.scan[i] = Advance(me),
                                      !.log = Append(@, Event(i, "insert", p.id, FALSE))]
              /\ store' = store
           \/ /\ inst' = [inst EXCEPT !.scan[i] = Advance(me),
                                      !.log = Append(@, Event(i, "insert", p.id, TRUE))]
              /\ store' = InsertRow(store, process_post(p))
        /\ UNCHANGED twoFrozen

NextTwo == \E i \in Instances : TwoCheck(i) \/ TwoInsert(i)

\* two processes, each in one scan of the first forum, in every interleaving of
\* their store calls
SpecTwo == InitTwo /\ [][NextTwo]_vars

----------------------------------------------------------------------------
(* Claims *)

ScanPcs == {"s_open", "s_iter", "s_check", "s_insert", "s_except", "s_return"}
PostFailures == {"check_failed", "normalize_failed", "insert_failed"}
RowFailures == {"fetch_failed", "update_failed"}

\* the outcome of the post, or of the row, handled last
LastOutcome == IF outcomes = <<>> THEN "none" ELSE outcomes[Len(outcomes)]

\* a row without its three counters
Derived(row) == [row EXCEPT !.score = 0, !.num_comments = 0, !.upvote_ratio = 0]

\* the counters of a row
CountersOf(row) ==
    [score |-> row.score, num_comments |-> row.num_comments,
     upvote_ratio |-> row.upvote_ratio]

\* C1: the store holds at most one row per reddit_id, whatever the scans and the
\* refresh passes have done; and when a scan has found a fetched post stored, or
\* has just inserted it, the store holds exactly one row for it
C1_OneRowPerId ==
    /\ \A i, j \in 1..Len(store) :
          store[i].reddit_id = store[j].reddit_id => i = j
    /\ (pc = "s_iter" /\ LastOutcome \in {"exists", "inserted"})
          => Len(SelectById(store, post.id)) = 1

\* a scheduled scan fetched the same post twice in one batch, inserted it the
\* first time and skipped it the second time
C1_Witness ==
    /\ frame = "scrape_job"
    /\ pc = "s_iter"
    /\ pos = 2
    /\ batch[1].id = batch[2].id
    /\ outcomes = <<"inserted", "exists">>
    /\ Len(SelectById(store, post.id)) = 1

\* C2: a row that exists keeps its place and every field but score, num_comments
\* and upvote_ratio under every step; these three change only in a step of the
\* refresh pass, and no step of a scan changes a row that exists
C2_OnlyRefreshChangesCounters ==
    [][/\ Len(store') >= Len(store)
       /\ \A i \in 1..Len(store) :
             /\ Derived(store'[i]) = Derived(store[i])
             /\ store'[i] # store[i] => pc = "r_each"]_vars

\* a refresh pass has just given a row counters that differ from the ones it was
\* read with, while a scan had fetched the post with other counters than stored
C2_Witness ==
    /\ pc = "r_each"
    /\ LastOutcome = "updated"
    /\ rpos >= 1
    /\ \E i \in 1..Len(store) :
          /\ store[i].reddit_id = snap[rpos].reddit_id
          /\ CountersOf(store[i]) # CountersOf(snap[rpos])
          /\ Derived(store[i]) = Derived(snap[rpos])

C4_PostFailureIsolated ==
    /\ [][(/\ pc \in {"s_check", "s_insert"}
           /\ Len(outcomes') = Len(outcomes) + 1
           /\ LastOutcome' \in PostFailures)
          => (pc' = "s_iter" /\ store' = store /\ batch' = batch /\ pos' = pos)]_vars
    /\ [][(pc = "s_iter" /\ pc' = "s_check")
          => (pos' = pos + 1 /\ post' = batch[pos + 1])]_vars
    /\ [](pc = "s_return" /\ ~passLog[Len(passLog)].failed
          => (pos = Len(batch) /\ Len(outcomes) = Len(batch)))
    /\ [](pc \in ScanPcs =>
            \A k \in 1..Len(outcomes) :
               outcomes[k] \notin PostFailures => batch[k].id \in StoredIds(store))

\* the insert of the first post of a batch failed, and the scan went on to insert
\* the second, different post
C4_Witness ==
    /\ pc = "s_iter"
    /\ outcomes = <<"insert_failed", "inserted">>
    /\ batch[1].id # batch[2].id
    /\ StoredIds(store) = {batch[2].id}

\* the forums a pass over SUBREDDITS has called scrape_subreddit_data for, in order
PassForums == [k \in 1..Len(passLog) |-> passLog[k].forum]

\* C5: the handler of a forum-level failure changes nothing in the store and lets
\* no exception out; the function then returns to its caller, which goes on with
\* the next forum; and at the end of a seed pass or of a scheduled scrape every
\* configured forum has been scraped once, in order
C5_ForumFailureIsolated ==
    /\ [][pc = "s_except"
          => (pc' \in {"s_except", "s_return"} /\ store' = store /\ fatal' = NoError)]_vars
    /\ [][(pc = "s_return" /\ pc' # "s_return")
          => /\ pc' = (IF frame = "seed" THEN "seed" ELSE "scrape_job")
             /\ fi' = fi + 1
             /\ store' = store
             /\ fatal' = NoError]_vars
    /\ [](pc = "register" => PassForums = SUBREDDITS)
    /\ [](pc = "job_done" /\ frame = "scrape_job" => PassForums = SUBREDDITS)

\* the scheduled scrape of the first forum inserted a post and then failed at
\* forum level; the post is still stored and the other two forums were scraped
C5_Witness ==
    /\ pc = "job_done"
    /\ frame = "scrape_job"
    /\ Len(passLog) = 3
    /\ passLog[1].failed
    /\ ~passLog[2].failed
    /\ Len(store) = 2

\* C6: in a refresh pass, a failed re-fetch or update of one row changes nothing in
\* the store and the pass goes on with the next row of the rows it read; a row
\* whose re-fetch and update succeed gets the live counters; and the pass ends
\* only after the last row it read
C6_RowFailureIsolated ==
    /\ [][(/\ pc = "r_each"
           /\ Len(outcomes') = Len(outcomes) + 1
           /\ LastOutcome' \in RowFailures)
          => (pc' = "r_each" /\ store' = store /\ snap' = snap /\ rpos' = rpos + 1)]_vars
    /\ [][(/\ pc = "r_each"
           /\ Len(outcomes') = Len(outcomes) + 1
           /\ LastOutcome' \notin RowFailures)
          => /\ pc' = "r_each" /\ snap' = snap /\ rpos' = rpos + 1
             /\ \A i \in 1..Len(store') :
                   store'[i].reddit_id = snap[rpos + 1].reddit_id
                      => CountersOf(store'[i]) = live[store'[i].reddit_id]]_vars
    /\ [][(pc = "r_each" /\ pc' # "r_each")
          => (pc' = "job_done" /\ rpos = Len(snap) /\ Len(outcomes) = Len(snap))]_vars

\* the re-fetch of the first row failed and left it as read; the pass went on and
\* gave the second row new counters
C6_Witness ==
    /\ pc = "r_each"
    /\ outcomes = <<"fetch_failed", "updated">>
    /\ store[1] = snap[1]
    /\ CountersOf(store[2]) # CountersOf(snap[2])
    /\ CountersOf(store[2]) = live[store[2].reddit_id]

\* C7: when the recurring tasks are registered the seed pass has called
\* scrape_subreddit_data once per configured forum, in order, with limit 100;
\* before the registration no scheduled scrape (limit 25), no refresh pass and no
\* poll has happened; after it no seed call happens
C7_SeedBeforeSchedule ==
    /\ pc = "register" =>
          /\ Len(passLog) = Len(SUBREDDITS)
          /\ \A k \in 1..Len(passLog) :
                passLog[k].forum = SUBREDDITS[k] /\ passLog[k].limit = 100
    /\ jobs = <<>> =>
          /\ frame \notin {"scrape_job", "refresh_job"}
          /\ limit # 25
          /\ pc \notin {"poll", "run", "sleep", "scrape_job", "job_done", "except_loop",
                        "r_select", "r_each", "r_except"}
          /\ pending = <<>>
          /\ quiet = 0
    /\ jobs # <<>> => (frame # "seed" /\ limit # 100 /\ pc \notin {"seed", "register"})

\* the seed scrape of the second forum failed at forum level and the seed pass
\* still made its three calls before the registration
C7_Witness ==
    /\ pc = "register"
    /\ jobs = <<>>
    /\ Len(passLog) = 3
    /\ ~passLog[1].failed
    /\ passLog[2].failed
    /\ ~passLog[3].failed

\* C8: a poll runs the scrape job exactly when 4 hours have passed since it was
\* registered or last ran, and the refresh job exactly when 6 hours have passed
\* for it, each at most once per poll; a poll with nothing due sleeps 60 seconds;
\* the scrape job calls scrape_subreddit_data for every configured forum with
\* limit 25 and the refresh job starts one pass; a job that has run is timed anew
\* from that moment, the other job's time untouched; and from every poll on,
\* each of the two jobs runs again
C8_IndependentSchedules ==
    /\ [][(pc = "poll" /\ pc' # "poll")
          => /\ ("scrape" \in Range(pending')) <=> (since["scrape"] >= 4 * 60 * 60)
             /\ ("refresh" \in Range(pending')) <=> (since["refresh"] >= 6 * 60 * 60)
             /\ Len(pending') = Cardinality(Range(pending'))
             /\ since' = since]_vars
    /\ [][(pc = "sleep" /\ pc' = "poll")
          => \A j \in JobNames : since'[j] = since[j] + 60]_vars
    /\ [][(pc = "run" /\ pc' # "run")
          => \/ pending = <<>> /\ pc' = "sleep"
             \/ pending # <<>> /\ Head(pending) = "scrape"
                   /\ pc' = "scrape_job" /\ frame' = "scrape_job" /\ fi' = 1
             \/ pending # <<>> /\ Head(pending) = "refresh"
                   /\ pc' = "r_select" /\ frame' = "refresh_job"]_vars
    /\ [](frame = "scrape_job"
            => /\ pending # <<>> /\ Head(pending) = "scrape"
               /\ since["scrape"] >= 4 * 60 * 60
               /\ limit \in {0, 25})
    /\ [](frame = "refresh_job"
            => /\ pending # <<>> /\ Head(pending) = "refresh"
               /\ since["refresh"] >= 6 * 60 * 60)
    /\ [][(pc = "job_done" /\ pc' # "job_done")
          => /\ pc' = "run"
             /\ pending' = Tail(pending)
             /\ since' = [since EXCEPT ![Head(pending)] = 0]
             /\ frame = "scrape_job"
                   => /\ Len(passLog) = Len(SUBREDDITS)
                      /\ \A k \in 1..Len(passLog) :
                            passLog[k].forum = SUBREDDITS[k] /\ passLog[k].limit = 25]_vars
    /\ (pc = "poll") ~> (pc = "scrape_job" /\ fi = 1)
    /\ (pc = "poll") ~> (pc = "r_select")

\* the first refresh pass starts 6 hours after the registration, 2 hours after
\* the scrape job ran at its own 4 hours
C8_Witness ==
    /\ pc = "r_select"
    /\ pending = <<"refresh">>
    /\ since["refresh"] = 6 * 60 * 60
    /\ since["scrape"] = 2 * 60 * 60

\* C9: an exception that leaves a scheduled job is caught by the loop, which does
\* not end the process; the handler waits 300 seconds, the jobs staying
\* registered, and goes back to polling; and once the jobs are registered the
\* process never ends
C9_LoopSurvivesTaskException ==
    /\ [][(faults' = faults + 1 /\ frame \in {"scrape_job", "refresh_job"})
          => (pc' = "except_loop" /\ fatal' = NoError /\ jobs' = jobs /\ store' = store)]_vars
    /\ [][pc = "except_loop"
          => /\ pc' = "poll"
             /\ \A j \in JobNames : since'[j] = since[j] + 300
             /\ jobs' = jobs
             /\ fatal' = NoError]_vars
    /\ [](jobs # <<>> => (pc # "exited" /\ fatal = NoError))

\* an exception left the scrape job at its due time; 5 minutes later the loop
\* polled again and the job, still due, is running
C9_Witness ==
    /\ faults = 1
    /\ frame = "scrape_job"
    /\ pc = "s_open"
    /\ since["scrape"] = 4 * 60 * 60 + 300

\* C10, as stated: with a required variable missing the process gets no further
\* than the startup check, does no scrape, no store operation and no scheduling,
\* and ends with the error of check_environment that names every missing variable
C10_StartupCheckNamesAllMissing ==
    /\ missing_vars # {} =>
          /\ pc \in {"import_supabase", "import_reddit", "check_environment", "exited"}
          /\ store = <<>>
          /\ passLog = <<>>
          /\ jobs = <<>>
    /\ (pc = "exited" /\ missing_vars # {}) =>
          fatal = [raisedBy |-> "check_environment", names |-> missing_vars]

\* one or more characters of class sep from position j on, then a name character
SepThenName(t, j, sep) ==
    \E n \in 1..(Len(t) - j) :
        /\ \A k \in 0..(n - 1) : InClass(sep, t[j + k])
        /\ NameChar(t[j + n])

\* rule k of the three, read as a regular expression, matches at position i
RuleMatchesAt(k, t, i) ==
    CASE k = 1 -> LitAt(t, i, w_vendor) /\ SepThenName(t, i + 6, "vendor_sep")
      [] k = 2 -> LitAt(t, i, w_from) /\ SepThenName(t, i + 4, "space")
      [] k = 3 -> /\ LitAt(t, i, w_ordered)
                  /\ \E m \in 1..Len(t) :
                        /\ \A x \in 0..(m - 1) : i + 7 + x <= Len(t) /\ SpaceSep(t[i + 7 + x])
                        /\ LitAt(t, i + 7 + m, w_from)
                        /\ SepThenName(t, i + 11 + m, "space")

RuleMatches(k, t) == \E i \in 1..Len(t) : RuleMatchesAt(k, t, i)

\* v is the trimmed capture of rule k matched at its leftmost place in t: a span of
\* name characters that follows the rule's separator and runs to the end of the
\* name characters
TrimmedCaptureOf(k, t, v) ==
    LET i == Least({x \in 1..Len(t) : RuleMatchesAt(k, t, x)})
    IN  \E b \in (i + 1)..Len(t), e \in (i + 1)..Len(t) :
           /\ b <= e
           /\ \A x \in b..e : NameChar(t[x])
           /\ InClass(IF k = 1 THEN "vendor_sep" ELSE "space", t[b - 1])
           /\ (e = Len(t) \/ ~NameChar(t[e + 1]))
           /\ v = Strip(SubSeq(t, b, e))

OrderedFromAcme == <<"O","r","d","e","r","e","d"," ","f","r","o","m"," ","A","c","m","e"," ","C","o","."," ","y","e","s","t","e","r","d","a","y">>

\* what extract_vendor_name returned is absent exactly when no rule matches the
\* text, and else the trimmed capture of the first rule, in the order vendor, from,
\* ordered from, that matches; and the lower-cased text gives the lower-cased result
FirstRuleDecides ==
    ret.fn = "extract_vendor_name" =>
        LET t == arg.text
            v == ret.value
            hit == {k \in 1..3 : RuleMatches(k, t)}
        IN  /\ (hit = {}) <=> (v = None)
            /\ hit # {} =>
                  /\ TrimmedCaptureOf(Least(hit), t, v)
                  /\ v = <<>> \/ (v[1] \notin Whitespace /\ v[Len(v)] \notin Whitespace)
            /\ extract_vendor_name(Lower(t)) = (IF v = None THEN None ELSE Lower(v))

\* C11, as stated: extract_vendor_name returns the trimmed capture of the first
\* rule that matches, or absent, whatever the case of the letters; and for
\* "Ordered from Acme Co. yesterday" it returns "Acme Co."
C11_ReturnsAcmeCo ==
    /\ FirstRuleDecides
    /\ (ret.fn = "extract_vendor_name" /\ arg.text = OrderedFromAcme)
          => ret.value = <<"A","c","m","e"," ","C","o",".">>

\* C11, amended: extract_vendor_name returns the trimmed capture of the first
\* rule that matches, the capture running to the end of the name characters, or
\* absent, whatever the case of the letters; and for "Ordered from Acme Co.
\* yesterday" it returns "Acme Co. yesterday"
C11_ReturnsWholeNameSpan ==
    /\ FirstRuleDecides
    /\ (ret.fn = "extract_vendor_name" /\ arg.text = OrderedFromAcme)
          => ret.value = <<"A","c","m","e"," ","C","o","."," ","y","e","s","t","e","r","d","a","y">>

\* extract_vendor_name has returned for "Ordered from Acme Co. yesterday"
C11_Witness ==
    /\ ret.fn = "extract_vendor_name"
    /\ arg.text = OrderedFromAcme
    /\ ret.value = <<"A","c","m","e"," ","C","o","."," ","y","e","s","t","e","r","d","a","y">>

\* the sample titles that hold "review" or "experience" in some case
ReviewTitles ==
    {<<"G","r","e","a","t"," ","r","e","v","i","e","w"," ","o","f"," ","X","Y","Z">>,
     <<"M","y"," ","E","X","P","E","R","I","E","N","C","E">>}

\* C12: the dict process_post returns has post_type review exactly when the
\* lower-cased title holds "review" or "experience", whatever the body, and
\* discussion otherwise; and its processed is false
C12_PostTypeFromTitle ==
    (ret.fn = "process_post" /\ ret.type = "dict") =>
        LET t == arg.post.title
            d == ret.value
        IN  /\ d.post_type \in {"review", "discussion"}
            /\ (d.post_type = "review") <=> (t \in ReviewTitles)
            /\ (d.post_type = "review") <=>
                  (Contains(Lower(t), w_review) \/ Contains(Lower(t), w_experience))
            /\ d.processed = FALSE

\* a post titled "hi" whose body is "a review" came out as a discussion
C12_Witness ==
    /\ ret.fn = "process_post"
    /\ ret.type = "dict"
    /\ arg.post.title = <<"h","i">>
    /\ arg.post.selftext = <<"a"," ","r","e","v","i","e","w">>
    /\ ret.value.post_type = "discussion"
    /\ ret.value.processed = FALSE

\* C13: every stored row of a post whose author is absent upstream has the string
\* "None" as its author
C13_AbsentAuthorIsSentinel ==
    \A i \in 1..Len(store) :
        Author(store[i].reddit_id).kind = "NoneType" => store[i].author = "None"

\* a scan has inserted the post whose author is absent, with author "None"
C13_Witness ==
    /\ pc = "s_iter"
    /\ LastOutcome = "inserted"
    /\ Author(post.id).kind = "NoneType"
    /\ \E i \in 1..Len(store) :
          store[i].reddit_id = post.id /\ store[i].author = "None"

\* C14: no step removes a reddit_id from the store; no step of a refresh pass adds
\* or removes one; and a row is added only by the insert of a scan, one row, for
\* the post whose existence check found no row, at the end of the table
C14_IdsNeverShrink ==
    [][/\ StoredIds(store) \subseteq StoredIds(store')
       /\ Len(store') >= Len(store)
       /\ pc \in {"r_select", "r_each", "r_except"} =>
             (StoredIds(store') = StoredIds(store) /\ Len(store') = Len(store))
       /\ Len(store') > Len(store) =>
             /\ pc = "s_insert"
             /\ Len(SelectById(store, post.id)) = 0
             /\ Len(store') = Len(store) + 1
             /\ store'[Len(store')].reddit_id = post.id
             /\ SubSeq(store', 1, Len(store)) = store]_vars

\* a refresh pass over both stored posts has ended with both ids still stored,
\* some time after the last scheduled scrape
C14_Witness ==
    /\ pc = "job_done"
    /\ frame = "refresh_job"
    /\ StoredIds(store) = Ids
    /\ Len(store) = 2
    /\ since["scrape"] > 0

\* C15: in a scan every fetched post gets one existence check and at most one
\* insert attempt, and the scan never goes back to a post it has handled; in a
\* refresh pass every row gets one update attempt; a failure leaves the store as
\* it is; and a post that failed in an earlier scan and is fetched again gets
\* its check and, found absent, its insert attempt, which stores it when it
\* succeeds
C15_NoRetryWithinRun ==
    /\ [](pc = "s_iter" => Len(outcomes) = pos)
    /\ [](pc \in {"s_check", "s_insert"} => (Len(outcomes) = pos - 1 /\ post = batch[pos]))
    /\ [](pc = "r_each" => Len(outcomes) = rpos)
    /\ [][(pc \in {"s_iter", "s_check", "s_insert"} /\ pc' \in ScanPcs)
          => (batch' = batch /\ pos' \in {pos, pos + 1})]_vars
    /\ [][(pc = "s_check" /\ pc' # pc)
          => (pc' \in {"s_iter", "s_insert"} /\ store' = store)]_vars
    /\ [][(pc = "s_insert" /\ pc' # pc)
          => (pc' = "s_iter" /\ Len(outcomes') = Len(outcomes) + 1)]_vars
    /\ [][(pc = "r_each" /\ pc' = "r_each")
          => (snap' = snap /\ rpos' \in {rpos, rpos + 1})]_vars
    /\ [][(/\ pc \in {"s_check", "s_insert"}
           /\ Len(outcomes') = Len(outcomes) + 1
           /\ LastOutcome' \in PostFailures)
          => store' = store]_vars
    /\ [](pc \notin ScanPcs => carried \cap StoredIds(store) = {})
    /\ [][(pc = "s_check" /\ pc' # pc /\ post.id \in carried)
          => \/ pc' = "s_insert"
             \/ LastOutcome' = "check_failed"
             \/ post.id \in StoredIds(store)]_vars
    /\ [][(/\ pc = "s_insert" /\ post.id \in carried
           /\ Len(outcomes') = Len(outcomes) + 1
           /\ LastOutcome' = "inserted")
          => post.id \in StoredIds(store')]_vars

\* a scheduled scan has inserted a post that failed in an earlier scan
C15_Witness ==
    /\ frame = "scrape_job"
    /\ pc = "s_iter"
    /\ LastOutcome = "inserted"
    /\ post.id \in carried
    /\ post.id \in StoredIds(store)
    /\ pos = 1

\* the place in the log of the existence check the insert call at place n rests
\* on: the last call of the same process before it
CheckOf(n) ==
    Max({c \in 1..(n - 1) : inst.log[c].who = inst.log[n].who})

\* the places m < n of two insert calls for one reddit_id by the two processes
InsertPairs ==
    {mn \in (1..Len(inst.log)) \X (1..Len(inst.log)) :
        /\ mn[1] < mn[2]
        /\ inst.log[mn[1]].op = "insert"
        /\ inst.log[mn[2]].op = "insert"
        /\ inst.log[mn[1]].id = inst.log[mn[2]].id
        /\ inst.log[mn[1]].who # inst.log[mn[2]].who}

\* after an insert by one process has taken effect, a check of that reddit_id
\* by the other process that returns is followed by no insert call resting on it
NoInsertAfterSeenInsert ==
    \A m \in 1..Len(inst.log), c \in 1..Len(inst.log) :
        (/\ m < c
         /\ inst.log[m].op = "insert" /\ inst.log[m].ok
         /\ inst.log[c].op = "check" /\ inst.log[c].ok
         /\ inst.log[c].id = inst.log[m].id
         /\ inst.log[c].who # inst.log[m].who)
        => \A n \in (c + 1)..Len(inst.log) :
              inst.log[n].op = "insert" => CheckOf(n) # c

\* C16, as stated: whenever the two processes have both issued an insert call for
\* one reddit_id, the existence check of the later call was made before the
\* earlier insert call; and a check made after the other process's insert has
\* taken effect leads to no insert call
C16_TwoCallsOnlyByRace ==
    inst # NoInst =>
        /\ \A mn \in InsertPairs : CheckOf(mn[2]) < mn[1]
        /\ NoInsertAfterSeenInsert

\* C16, amended: whenever one process issues an insert call for a reddit_id of
\* which the other process's insert has taken effect, its existence check was
\* made before that insert; a reddit_id has two rows only then; and a check made
\* after the other process's insert has taken effect leads to no insert call
C16_TwoRowsOnlyByRace ==
    inst # NoInst =>
        /\ \A mn \in InsertPairs : inst.log[mn[1]].ok => CheckOf(mn[2]) < mn[1]
        /\ \A id \in Ids :
              Len(SelectById(store, id)) > 1 =>
                 \E mn \in InsertPairs :
                    /\ inst.log[mn[1]].id = id
                    /\ inst.log[mn[1]].ok /\ inst.log[mn[2]].ok
                    /\ CheckOf(mn[2]) < mn[1]
        /\ NoInsertAfterSeenInsert

\* both processes checked the same post before either inserted it, and both
\* inserts took effect: the post has two rows
C16_Witness ==
    /\ inst # NoInst
    /\ Len(inst.log) = 4
    /\ inst.log[1].op = "check" /\ inst.log[2].op = "check"
    /\ inst.log[1].who # inst.log[2].who
    /\ inst.log[3].op = "insert" /\ inst.log[3].ok
    /\ inst.log[4].op = "insert" /\ inst.log[4].ok
    /\ Len(store) = 2
    /\ store[1].reddit_id = store[2].reddit_id

\* C17: every stored row of a post on whose text TextBlob raises has the
\* sentiment_score 0, and every stored sentiment_score lies between -1 and 1
C17_SentimentFailureIsNeutral ==
    \A i \in 1..Len(store) :
        /\ BlobRaises(store[i].reddit_id) => store[i].sentiment_score = 0
        /\ store[i].sentiment_score \in -100..100

\* a scan has inserted, with sentiment_score 0, the post on whose text TextBlob
\* raises, a text whose polarity would not be 0
C17_Witness ==
    /\ pc = "s_iter"
    /\ LastOutcome = "inserted"
    /\ BlobRaises(post.id)
    /\ Polarity(Joined(Title(post.id), Selftext(post.id))) # 0
    /\ \E i \in 1..Len(store) :
          store[i].reddit_id = post.id /\ store[i].sentiment_score = 0

\* C18: every text the "ordered from" rule matches is matched by the "from" rule
\* or by the "vendor" rule too, so that what extract_vendor_name returns, when it
\* returns a name, is the trimmed capture of the "vendor" rule or, when that rule
\* does not match, of the "from" rule
C18_OrderedFromNeverDecides ==
    ret.fn = "extract_vendor_name" =>
        LET t == arg.text
        IN  /\ re_search(3, t) # NoSpan
                 => (re_search(2, t) # NoSpan \/ re_search(1, t) # NoSpan)
            /\ RuleMatches(3, t) => RuleMatches(2, t)
            /\ ret.value # None =>
                 ret.value = IF re_search(1, t) # NoSpan
                             THEN Strip(Group1(t, re_search(1, t)))
                             ELSE Strip(Group1(t, re_search(2, t)))
            /\ (re_search(1, t) = NoSpan /\ re_search(2, t) = NoSpan) => ret.value = None

\* for "Ordered from X-1 " the "ordered from" rule matches, the "vendor" rule
\* does not, and the name returned is the capture of the "from" rule
C18_Witness ==
    /\ ret.fn = "extract_vendor_name"
    /\ arg.text = <<"O","r","d","e","r","e","d"," ","f","r","o","m"," ","X","-","1"," ">>
    /\ re_search(3, arg.text) # NoSpan
    /\ re_search(1, arg.text) = NoSpan
    /\ ret.value = Strip(Group1(arg.text, re_search(2, arg.text)))
    /\ ret.value = <<"X","-","1">>

\* C19: whatever call to the forum source or to the store fails inside a seed
\* scrape, a scheduled scrape or a refresh pass, the loop never enters its
\* handler and its 300 second wait, no exception leaves the process once main
\* has started, the outer handlers end the function normally, the clock only
\* ever advances by the 60 seconds of a poll, and every task that has started,
\* and every handler of a failure, is followed by the next sleep of the loop
C19_TaskFailuresStayInside ==
    /\ [](pc # "except_loop")
    /\ [](pc = "exited" =>
            fatal.raisedBy \in {"create_client", "praw.Reddit", "check_environment"})
    /\ [](pc \in TaskPcs \cup {"seed", "register", "poll", "run", "sleep", "job_done"}
            => fatal = NoError)
    /\ [][pc = "s_except" => (pc' = "s_return" /\ store' = store)]_vars
    /\ [][pc = "r_except" => (pc' = "job_done" /\ store' = store)]_vars
    /\ [][\A j \in JobNames : since'[j] \in {since[j], since[j] + 60, 0}]_vars
    /\ (pc \in TaskPcs) ~> (pc = "sleep")

\* every forum of a scheduled scrape failed at forum level, and the job ends as
\* one that ran: no exception is on its way
C19_Witness ==
    /\ pc = "job_done"
    /\ frame = "scrape_job"
    /\ Len(passLog) = 3
    /\ \A k \in 1..3 : passLog[k].failed
    /\ fatal = NoError

====
